---- MODULE Spec2Model ----
(***************************************************************************)
(* Lifecycle controller of the local emulator suite (startAll,             *)
(* startEmulator, cleanShutdown, filterEmulatorTargets, shouldStart) and   *)
(* the export coordinator (HubExport.exportAll).                           *)
(*                                                                         *)
(* One control thread runs startAll; every await is a step boundary only   *)
(* where the environment can answer in more than one way (port probe,      *)
(* instance start, instance stop, export request).                         *)
(***************************************************************************)
EXTENDS Integers, Sequences, FiniteSets, TLC

\* ------------------------------------------------------------------------
\* Emulators (emulator/types)
\* ------------------------------------------------------------------------
HUB == "hub"
FUNCTIONS == "functions"
FIRESTORE == "firestore"
DATABASE == "database"
HOSTING == "hosting"
PUBSUB == "pubsub"

ALL_SERVICE_EMULATORS == <<FUNCTIONS, FIRESTORE, DATABASE, HOSTING, PUBSUB>>
ALL_EMULATORS == <<HUB>> \o ALL_SERVICE_EMULATORS
IMPORT_EXPORT_EMULATORS == <<FIRESTORE>>

Range(s) == {s[i] : i \in 1..Len(s)}
ServiceKinds == Range(ALL_SERVICE_EMULATORS)
Kinds == Range(ALL_EMULATORS)

\* ------------------------------------------------------------------------
\* Bounds of the model
\* ------------------------------------------------------------------------
\* longest --only list (number of comma separated names)
MaxOnly == 2
\* deepest export / import directory (number of path segments below "/")
MaxDepth == 1
\* number of ports after the first free one whose occupancy is varied in
\* the port negotiation specification
MaxExtra == 2

\* ------------------------------------------------------------------------
\* Program constants
\* ------------------------------------------------------------------------
\* default port of the hub ("if the hub can't start on 4000")
HubPort == 4000
\* stopPort: hubAddr.port + 100
StopPortOffset == 100
\* result of a failed port negotiation (portfinder rejects)
NoPort == 0

SeqsUpTo(S, n) == UNION {[1..k -> S] : k \in 0..n}

\* names the user can write in --only
OnlyNames == Kinds
\* segment names of directories
DirNames == {"a"}
\* absolute directories, as the sequence of their segments (<<>> is "/")
Dirs == SeqsUpTo(DirNames, MaxDepth)

\* ------------------------------------------------------------------------
\* Paths (node's path module on absolute, normalised paths: a path is the
\* sequence of its segments)
\* ------------------------------------------------------------------------
\* path.resolve of an absolute path without "." or ".." segments
pathResolve(p) == p
\* path.join(a, b): the segments of a followed by those of b; a leading "/"
\* of b is no different from any other separator
pathJoin(a, b) == a \o b
\* the template `${x}/${x}.overall_export_metadata`, x a path with at least
\* one segment: x, a separator, then x again with the suffix on its last
\* segment
OVERALL_SUFFIX == ".overall_export_metadata"
metadataTemplate(x) ==
  x \o SubSeq(x, 1, Len(x) - 1) \o <<x[Len(x)] \o OVERALL_SUFFIX>>
IsPrefix(p, q) == Len(p) <= Len(q) /\ SubSeq(q, 1, Len(p)) = p

\* ------------------------------------------------------------------------
\* The metadata file (hubExport.ts)
\* ------------------------------------------------------------------------
METADATA_FILE_NAME == "metadata.json"
\* the metadata file of a directory
metadataPath(dir) == pathJoin(dir, <<METADATA_FILE_NAME>>)
CLI_VERSION == "cli"
\* An ExportMetadata value: each field is <<>> (undefined) or <<value>>.
\* JSON.stringify: the fields that are defined, in insertion order, as
\* key/value pairs
jsonStringify(m) ==
  (IF m.version = <<>> THEN <<>> ELSE <<<<"version", m.version[1]>>>>) \o
  (IF m.firestore = <<>> THEN <<>> ELSE <<<<"firestore", m.firestore[1]>>>>)
\* JSON.parse(...) as ExportMetadata: a field is defined iff its key occurs
jsonField(text, key) ==
  LET hits == SelectSeq(text, LAMBDA kv : kv[1] = key)
  IN IF hits = <<>> THEN <<>> ELSE <<hits[Len(hits)][2]>>
jsonParse(text) ==
  [version |-> jsonField(text, "version"), firestore |-> jsonField(text, "firestore")]
\* exportMetadata before any import is read
defaultExportMetadata == [version |-> <<"unknown">>, firestore |-> <<>>]

\* ------------------------------------------------------------------------
\* State
\* ------------------------------------------------------------------------
VARIABLES
  options,          \* [config, only, projectId, import] of this invocation
  occupied,         \* ports of the hub's host that are bound by others
  fs,               \* per metadata file path: <<>> (no file) or <<its text>>
  registry,         \* EmulatorRegistry: running kinds in registration order
  pc,               \* position of the control thread in startAll
  result,           \* how startAll ended ("none" while it has not)
  hubPort,          \* the port negotiated for the hub (NoPort before)
  exportMetadata,   \* startAll's local exportMetadata
  seed_from_export, \* FirestoreEmulatorArgs.seed_from_export (<<>> or <<path>>)
  functions_emulator_host, \* DatabaseEmulatorArgs has the functions address
  probed,           \* kinds whose port checkPortOpen has probed
  portTaken,        \* kinds whose probe reported the port as not open
  attempted,        \* kinds passed to startEmulator, in call order
  warnings,         \* warnings logged by startAll, in order
  stopLog,          \* kinds on which Registry.stop was invoked, in order
  connected,        \* kinds on which connect() was invoked, in order
  shutdownResult,   \* outcome of the caller's last cleanShutdown
  exportResult,     \* outcome of the last exportAll
  exportCalls       \* export requests issued to running services

vars == <<options, occupied, fs, registry, pc, result, hubPort, exportMetadata,
          seed_from_export, functions_emulator_host, probed, portTaken,
          attempted, warnings, stopLog, connected, shutdownResult,
          exportResult, exportCalls>>

optionVars == <<options, occupied>>
runVars == <<pc, result, hubPort, exportMetadata, seed_from_export,
             functions_emulator_host, probed, portTaken, attempted, warnings,
             connected>>
exportVars == <<fs, exportResult, exportCalls>>

\* ------------------------------------------------------------------------
\* Port negotiation (portfinder.getPortPromise as startAll calls it)
\* ------------------------------------------------------------------------
Window == HubPort..(HubPort + StopPortOffset)
BusyRun(k) == HubPort..(HubPort + k - 1)

\* getPortPromise({port, stopPort}): the first port from `port` on that is
\* not bound, rejecting once the candidate passes stopPort
RECURSIVE getPortPromise(_, _, _)
getPortPromise(port, stopPort, busy) ==
  IF port > stopPort THEN NoPort
  ELSE IF port \notin busy THEN port
  ELSE getPortPromise(port + 1, stopPort, busy)

\* mutant of findHubPort: the window ends one port early
findHubPort_ShortWindow(busy) ==
  getPortPromise(HubPort, HubPort + StopPortOffset - 1, busy)

\* the hub's port as startAll asks for it
findHubPort(busy) == getPortPromise(HubPort, HubPort + StopPortOffset, busy)

\* ------------------------------------------------------------------------
\* EmulatorRegistry (emulator/registry)
\* ------------------------------------------------------------------------
listRunning(reg) == reg
isRunning(reg, name) == name \in Range(reg)
\* start(instance): the instance is recorded after its own start succeeded
RegistryStart(reg, name) == Append(reg, name)
\* stop(name): after the instance's stop, the entry is removed; a no-op when
\* nothing runs under that name
RegistryStop(reg, name) == SelectSeq(reg, LAMBDA n : n # name)

\* ------------------------------------------------------------------------
\* Target selection
\* ------------------------------------------------------------------------
\* _.intersection(a, b): the elements of a that occur in b, in a's order
intersection(a, b) == SelectSeq(a, LAMBDA e : e \in Range(b))
\* mutant of difference: every name is kept once
difference_Unique(a, b) ==
  LET kept == SelectSeq(a, LAMBDA e : e \notin Range(b))
  IN SelectSeq([i \in 1..Len(kept) |->
                  IF \E j \in 1..(i - 1) : kept[j] = kept[i] THEN "" ELSE kept[i]],
               LAMBDA e : e # "")

\* _.difference(a, b): the elements of a that do not occur in b, in a's
\* order, repeated as often as a repeats them
difference(a, b) == SelectSeq(a, LAMBDA e : e \notin Range(b))

\* mutant of filterEmulatorTargets: --only is not applied
filterEmulatorTargets_IgnoreOnly(opts) ==
  SelectSeq(ALL_SERVICE_EMULATORS, LAMBDA e : e \in opts.config)

filterEmulatorTargets(opts) ==
  LET targets == SelectSeq(ALL_SERVICE_EMULATORS, LAMBDA e : e \in opts.config)
  IN IF opts.only # <<>> THEN intersection(targets, opts.only) ELSE targets

\* mutant of shouldStart: the hub is filtered like every other kind
shouldStart_HubFiltered(opts, name) ==
  name \in Range(filterEmulatorTargets(opts))

shouldStart(opts, name) ==
  IF name = HUB THEN TRUE
  ELSE name \in Range(filterEmulatorTargets(opts))

\* the names startAll warns about: requested with --only, not a target
ignoredNames(opts) ==
  IF opts.only # <<>> THEN difference(opts.only, filterEmulatorTargets(opts))
  ELSE <<>>

notStartingWarning(name) == [kind |-> "notStarting", name |-> name]
hubPortWarning == [kind |-> "hubPort", name |-> HUB]
Map(f(_), s) == [i \in 1..Len(s) |-> f(s[i])]

\* ------------------------------------------------------------------------
\* cleanShutdown
\* ------------------------------------------------------------------------
\* The loop over listRunning(): `failing` are the kinds whose instance
\* rejects its stop. A rejected stop leaves the loop (nothing catches it).
RECURSIVE shutdownLoop(_, _, _, _)
shutdownLoop(names, reg, failing, log) ==
  IF names = <<>> THEN [registry |-> reg, ok |-> TRUE, stops |-> log]
  ELSE LET name == Head(names) IN
       IF name \in failing
       THEN [registry |-> reg, ok |-> FALSE, stops |-> Append(log, name)]
       ELSE shutdownLoop(Tail(names), RegistryStop(reg, name), failing,
                         Append(log, name))

\* mutant of cleanShutdown: the loop indexes the live registry, which
\* shrinks under it
RECURSIVE shutdownLoop_Live(_, _, _, _)
shutdownLoop_Live(i, reg, failing, log) ==
  IF i > Len(listRunning(reg)) THEN [registry |-> reg, ok |-> TRUE, stops |-> log]
  ELSE LET name == listRunning(reg)[i] IN
       IF name \in failing
       THEN [registry |-> reg, ok |-> FALSE, stops |-> Append(log, name)]
       ELSE shutdownLoop_Live(i + 1, RegistryStop(reg, name), failing,
                              Append(log, name))

cleanShutdown_SkipsAfterRemoval(reg, failing) == shutdownLoop_Live(1, reg, failing, <<>>)

\* mutant of cleanShutdown: the instances are stopped last-registered first
Reverse(s) == [i \in 1..Len(s) |-> s[Len(s) + 1 - i]]

cleanShutdown_Reverse(reg, failing) ==
  shutdownLoop(Reverse(listRunning(reg)), reg, failing, <<>>)

cleanShutdown(reg, failing) == shutdownLoop(listRunning(reg), reg, failing, <<>>)

\* ------------------------------------------------------------------------
\* startEmulator
\* ------------------------------------------------------------------------
\* mutant of startEmulator: a rejected EmulatorRegistry.start is swallowed
startEmulator_ContinuesAfterReject(name, next) ==
  /\ attempted' = Append(attempted, name)
  /\ probed' = probed \cup {name}
  /\ \/ /\ portTaken' = portTaken \cup {name}
        /\ \E failing \in SUBSET Range(registry) :
             LET sd == cleanShutdown(registry, failing) IN
             /\ registry' = sd.registry
             /\ stopLog' = sd.stops
             /\ shutdownResult' = IF sd.ok THEN "ok" ELSE "threw"
             /\ result' = IF sd.ok THEN "portTaken" ELSE "stopFailed"
        /\ pc' = "failed"
     \/ /\ ~isRunning(registry, name)
        /\ registry' = RegistryStart(registry, name)
        /\ pc' = next
        /\ UNCHANGED <<portTaken, stopLog, result, shutdownResult>>
     \/ /\ pc' = next
        /\ result' = "startFailed"
        /\ UNCHANGED <<portTaken, stopLog, registry, shutdownResult>>

\* startEmulator(instance) for the instance of kind `name`; `next` is where
\* startAll continues when it returns. checkPortOpen answers either way;
\* the instance's own start inside EmulatorRegistry.start may reject.
startEmulator(name, next) ==
  /\ attempted' = Append(attempted, name)
  /\ probed' = probed \cup {name}
  /\ \/ \* port not open: cleanShutdown, then reject "port taken"
        /\ portTaken' = portTaken \cup {name}
        /\ \E failing \in SUBSET Range(registry) :
             LET sd == cleanShutdown(registry, failing) IN
             /\ registry' = sd.registry
             /\ stopLog' = sd.stops
             /\ shutdownResult' = IF sd.ok THEN "ok" ELSE "threw"
             /\ result' = IF sd.ok THEN "portTaken" ELSE "stopFailed"
        /\ pc' = "failed"
     \/ \* port open, EmulatorRegistry.start(instance) succeeds
        /\ ~isRunning(registry, name)
        /\ registry' = RegistryStart(registry, name)
        /\ pc' = next
        /\ UNCHANGED <<portTaken, stopLog, result, shutdownResult>>
     \/ \* port open, EmulatorRegistry.start(instance) rejects
        /\ pc' = "failed"
        /\ result' = "startFailed"
        /\ UNCHANGED <<portTaken, stopLog, registry, shutdownResult>>

\* ------------------------------------------------------------------------
\* startAll, one action per step
\* ------------------------------------------------------------------------
\* lines 116-148: targets, warnings for ignored names, hub port
StartAllBegin ==
  /\ pc = "idle"
  /\ LET ignored == Map(notStartingWarning, ignoredNames(options))
         port == findHubPort(occupied)
     IN /\ hubPort' = port
        /\ IF port = NoPort
           THEN /\ warnings' = warnings \o ignored
                /\ pc' = "failed"
                /\ result' = "noPort"
           ELSE /\ warnings' = warnings \o ignored \o
                               (IF port # HubPort THEN <<hubPortWarning>> ELSE <<>>)
                /\ pc' = "hub"
                /\ result' = result
  /\ UNCHANGED <<optionVars, exportVars, registry, exportMetadata,
                 seed_from_export, functions_emulator_host, probed, portTaken,
                 attempted, stopLog, connected, shutdownResult>>

\* lines 150-155
StartHub ==
  /\ pc = "hub"
  /\ startEmulator(HUB, "import")
  /\ UNCHANGED <<optionVars, exportVars, hubPort, exportMetadata,
                 seed_from_export, functions_emulator_host, warnings,
                 connected>>

\* mutant of LoadImport: a missing metadata file leaves the default metadata
LoadImport_IgnoresMissing ==
  /\ pc = "import"
  /\ IF options.import = <<>>
     THEN exportMetadata' = defaultExportMetadata
     ELSE LET importDir == pathResolve(options.import[1])
              file == pathJoin(importDir, <<METADATA_FILE_NAME>>) IN
          IF fs[file] = <<>>
          THEN exportMetadata' = defaultExportMetadata
          ELSE exportMetadata' = jsonParse(fs[file][1])
  /\ pc' = "functions"
  /\ UNCHANGED <<optionVars, exportVars, registry, result, hubPort,
                 seed_from_export, functions_emulator_host, probed, portTaken,
                 attempted, warnings, stopLog, connected, shutdownResult>>

\* lines 157-166: a missing metadata file makes readFileSync throw
LoadImport ==
  /\ pc = "import"
  /\ IF options.import = <<>>
     THEN /\ exportMetadata' = defaultExportMetadata
          /\ pc' = "functions"
          /\ result' = result
     ELSE LET importDir == pathResolve(options.import[1])
              file == pathJoin(importDir, <<METADATA_FILE_NAME>>) IN
          IF fs[file] = <<>>
          THEN /\ pc' = "failed"
               /\ result' = "noMetadata"
               /\ exportMetadata' = defaultExportMetadata
          ELSE /\ exportMetadata' = jsonParse(fs[file][1])
               /\ pc' = "functions"
               /\ result' = result
  /\ UNCHANGED <<optionVars, exportVars, registry, hubPort, seed_from_export,
                 functions_emulator_host, probed, portTaken, attempted,
                 warnings, stopLog, connected, shutdownResult>>

\* lines 168-196
StartFunctions ==
  /\ pc = "functions"
  /\ IF shouldStart(options, FUNCTIONS)
     THEN startEmulator(FUNCTIONS, "firestore")
     ELSE /\ pc' = "firestore"
          /\ UNCHANGED <<registry, result, probed, portTaken, attempted, stopLog, shutdownResult>>
  /\ UNCHANGED <<optionVars, exportVars, hubPort, exportMetadata,
                 seed_from_export, functions_emulator_host, warnings,
                 connected>>

\* lines 208-218: args.seed_from_export
firestoreSeedPath(import, firestore) ==
  LET importDirAbsPath == pathResolve(import)
      firestoreExportName == pathJoin(importDirAbsPath, <<firestore>>)
  IN pathJoin(importDirAbsPath, metadataTemplate(firestoreExportName))

\* lines 198-245
StartFirestore ==
  /\ pc = "firestore"
  /\ IF shouldStart(options, FIRESTORE)
     THEN /\ seed_from_export' =
               IF exportMetadata.firestore # <<>>
               THEN <<firestoreSeedPath(options.import[1], exportMetadata.firestore[1])>>
               ELSE <<>>
          /\ startEmulator(FIRESTORE, "database")
     ELSE /\ pc' = "database"
          /\ UNCHANGED <<registry, result, probed, portTaken, attempted, stopLog, shutdownResult,
                         seed_from_export>>
  /\ UNCHANGED <<optionVars, exportVars, hubPort, exportMetadata,
                 functions_emulator_host, warnings, connected>>

\* mutant of StartDatabase: startAll continues after the hosting block
StartDatabase_SkipsHosting ==
  /\ pc = "database"
  /\ IF shouldStart(options, DATABASE)
     THEN /\ functions_emulator_host' = shouldStart(options, FUNCTIONS)
          /\ startEmulator(DATABASE, "pubsub")
     ELSE /\ pc' = "pubsub"
          /\ UNCHANGED <<registry, result, probed, portTaken, attempted, stopLog,
                         shutdownResult, functions_emulator_host>>
  /\ UNCHANGED <<optionVars, exportVars, hubPort, exportMetadata,
                 seed_from_export, warnings, connected>>

\* mutant of StartDatabase: the functions address is always passed
StartDatabase_AlwaysFunctionsHost ==
  /\ pc = "database"
  /\ IF shouldStart(options, DATABASE)
     THEN /\ functions_emulator_host' = TRUE
          /\ startEmulator(DATABASE, "hosting")
     ELSE /\ pc' = "hosting"
          /\ UNCHANGED <<registry, result, probed, portTaken, attempted, stopLog,
                         shutdownResult, functions_emulator_host>>
  /\ UNCHANGED <<optionVars, exportVars, hubPort, exportMetadata,
                 seed_from_export, warnings, connected>>

\* lines 247-288
StartDatabase ==
  /\ pc = "database"
  /\ IF shouldStart(options, DATABASE)
     THEN /\ functions_emulator_host' = shouldStart(options, FUNCTIONS)
          /\ startEmulator(DATABASE, "hosting")
     ELSE /\ pc' = "hosting"
          /\ UNCHANGED <<registry, result, probed, portTaken, attempted, stopLog, shutdownResult,
                         functions_emulator_host>>
  /\ UNCHANGED <<optionVars, exportVars, hubPort, exportMetadata,
                 seed_from_export, warnings, connected>>

\* lines 290-299
StartHosting ==
  /\ pc = "hosting"
  /\ IF shouldStart(options, HOSTING)
     THEN startEmulator(HOSTING, "pubsub")
     ELSE /\ pc' = "pubsub"
          /\ UNCHANGED <<registry, result, probed, portTaken, attempted, stopLog, shutdownResult>>
  /\ UNCHANGED <<optionVars, exportVars, hubPort, exportMetadata,
                 seed_from_export, functions_emulator_host, warnings,
                 connected>>

\* mutant of StartPubsub: the project id is not checked
StartPubsub_NoProjectCheck ==
  /\ pc = "pubsub"
  /\ IF shouldStart(options, PUBSUB)
     THEN startEmulator(PUBSUB, "connect")
     ELSE /\ pc' = "connect"
          /\ UNCHANGED <<registry, result, probed, portTaken, attempted, stopLog,
                         shutdownResult>>
  /\ UNCHANGED <<optionVars, exportVars, hubPort, exportMetadata,
                 seed_from_export, functions_emulator_host, warnings,
                 connected>>

\* lines 301-316: without a project id the FirebaseError is thrown before
\* the instance exists
StartPubsub ==
  /\ pc = "pubsub"
  /\ IF shouldStart(options, PUBSUB)
     THEN IF ~options.projectId
          THEN /\ pc' = "failed"
               /\ result' = "noProject"
               /\ UNCHANGED <<registry, probed, portTaken, attempted, stopLog, shutdownResult>>
          ELSE startEmulator(PUBSUB, "connect")
     ELSE /\ pc' = "connect"
          /\ UNCHANGED <<registry, result, probed, portTaken, attempted, stopLog, shutdownResult>>
  /\ UNCHANGED <<optionVars, exportVars, hubPort, exportMetadata,
                 seed_from_export, functions_emulator_host, warnings,
                 connected>>

\* mutant of Connect: the loop runs over the targets, not the registry
Connect_TargetsOnly ==
  /\ pc = "connect"
  /\ LET running == filterEmulatorTargets(options) IN
     \E failAt \in 0..Len(running) :
        IF failAt = 0
        THEN /\ connected' = running
             /\ pc' = "done"
             /\ result' = "ok"
        ELSE /\ connected' = SubSeq(running, 1, failAt)
             /\ pc' = "failed"
             /\ result' = "connectFailed"
  /\ UNCHANGED <<optionVars, exportVars, registry, hubPort, exportMetadata,
                 seed_from_export, functions_emulator_host, probed, portTaken,
                 attempted, warnings, stopLog, shutdownResult>>

\* lines 318-325: connect() on every running instance; `failAt` is the
\* position of the first instance whose connect() rejects (0: none)
Connect ==
  /\ pc = "connect"
  /\ LET running == listRunning(registry) IN
     \E failAt \in 0..Len(running) :
        IF failAt = 0
        THEN /\ connected' = running
             /\ pc' = "done"
             /\ result' = "ok"
        ELSE /\ connected' = SubSeq(running, 1, failAt)
             /\ pc' = "failed"
             /\ result' = "connectFailed"
  /\ UNCHANGED <<optionVars, exportVars, registry, hubPort, exportMetadata,
                 seed_from_export, functions_emulator_host, probed, portTaken,
                 attempted, warnings, stopLog, shutdownResult>>

\* ------------------------------------------------------------------------
\* The caller of startAll: cleanShutdown on exit or after a failure
\* ------------------------------------------------------------------------
CleanShutdown ==
  /\ pc \in {"done", "failed"}
  /\ \E failing \in SUBSET Range(registry) :
       LET sd == cleanShutdown(registry, failing) IN
       /\ registry' = sd.registry
       /\ stopLog' = sd.stops
       /\ shutdownResult' = IF sd.ok THEN "ok" ELSE "threw"
  /\ UNCHANGED <<optionVars, exportVars, runVars>>

\* ------------------------------------------------------------------------
\* HubExport (emulator/hubExport.ts)
\* ------------------------------------------------------------------------
\* mutant of shouldExport: the registry is not consulted
shouldExport_IgnoreRunning(reg, e) ==
  e \in Range(IMPORT_EXPORT_EMULATORS)

shouldExport(reg, e) ==
  e \in Range(IMPORT_EXPORT_EMULATORS) /\ isRunning(reg, e)

getExportName(e) ==
  CASE e = FIRESTORE -> "firestore_export"

\* the body of the request exportFirestore posts to the running emulator
firestoreExportBody(exportPath) ==
  [kind |-> FIRESTORE, export_directory |-> exportPath,
   export_name |-> getExportName(FIRESTORE)]

\* mutant of exportAll: an empty export set is not rejected
exportAll_NoEmptyCheck(reg, exportPath, requestOk) ==
  LET withFirestore == shouldExport(reg, FIRESTORE)
      metadata == [version |-> <<CLI_VERSION>>,
                   firestore |-> IF withFirestore
                                 THEN <<getExportName(FIRESTORE)>> ELSE <<>>]
  IN IF withFirestore /\ ~requestOk
     THEN [result |-> "requestFailed",
           calls |-> <<firestoreExportBody(exportPath)>>, written |-> <<>>]
     ELSE [result |-> "ok",
           calls |-> IF withFirestore THEN <<firestoreExportBody(exportPath)>>
                     ELSE <<>>,
           written |-> <<jsonStringify(metadata)>>]

\* mutant of exportAll: the metadata file is written before the export
\* request is awaited
exportAll_WriteFirst(reg, exportPath, requestOk) ==
  LET toExport == SelectSeq(ALL_EMULATORS, LAMBDA e : shouldExport(reg, e))
      withFirestore == shouldExport(reg, FIRESTORE)
      metadata == [version |-> <<CLI_VERSION>>,
                   firestore |-> IF withFirestore
                                 THEN <<getExportName(FIRESTORE)>> ELSE <<>>]
  IN IF Len(toExport) = 0
     THEN [result |-> "noEmulators", calls |-> <<>>, written |-> <<>>]
     ELSE [result |-> IF withFirestore /\ ~requestOk THEN "requestFailed" ELSE "ok",
           calls |-> IF withFirestore THEN <<firestoreExportBody(exportPath)>>
                     ELSE <<>>,
           written |-> <<jsonStringify(metadata)>>]

\* exportAll of a HubExport constructed with `exportPath`, against the
\* registry `reg`; `requestOk` is whether the export request succeeds.
\* Returns how it ended, the requests it issued and what it wrote
\* (<<>> or <<text>>).
exportAll(reg, exportPath, requestOk) ==
  LET toExport == SelectSeq(ALL_EMULATORS, LAMBDA e : shouldExport(reg, e))
      withFirestore == shouldExport(reg, FIRESTORE)
      metadata == [version |-> <<CLI_VERSION>>,
                   firestore |-> IF withFirestore
                                 THEN <<getExportName(FIRESTORE)>> ELSE <<>>]
  IN IF Len(toExport) = 0
     THEN [result |-> "noEmulators", calls |-> <<>>, written |-> <<>>]
     ELSE IF withFirestore /\ ~requestOk
     THEN [result |-> "requestFailed",
           calls |-> <<firestoreExportBody(exportPath)>>, written |-> <<>>]
     ELSE [result |-> "ok",
           calls |-> IF withFirestore THEN <<firestoreExportBody(exportPath)>>
                     ELSE <<>>,
           written |-> <<jsonStringify(metadata)>>]

\* an export request reaching the hub while the emulators are up
ExportAll ==
  /\ pc \in {"done", "failed"}
  /\ \E exportPath \in Dirs, requestOk \in BOOLEAN :
       LET r == exportAll(registry, exportPath, requestOk) IN
       /\ exportResult' = r.result
       /\ exportCalls' = r.calls
       /\ fs' = IF r.written = <<>> THEN fs
                ELSE [fs EXCEPT ![metadataPath(exportPath)] = r.written]
  /\ UNCHANGED <<optionVars, runVars, registry, stopLog, shutdownResult>>

\* ------------------------------------------------------------------------
\* A new process on the same machine: everything but the file system starts
\* over; the --import flag may differ from the previous invocation's
\* ------------------------------------------------------------------------
ImportChoices == {<<>>} \cup {<<d>> : d \in Dirs}

Restart ==
  /\ pc \in {"done", "failed"}
  /\ \E import \in ImportChoices : options' = [options EXCEPT !.import = import]
  /\ registry' = <<>>
  /\ pc' = "idle"
  /\ result' = "none"
  /\ hubPort' = NoPort
  /\ exportMetadata' = defaultExportMetadata
  /\ seed_from_export' = <<>>
  /\ functions_emulator_host' = FALSE
  /\ probed' = {}
  /\ portTaken' = {}
  /\ attempted' = <<>>
  /\ warnings' = <<>>
  /\ stopLog' = <<>>
  /\ connected' = <<>>
  /\ shutdownResult' = "none"
  /\ exportResult' = "none"
  /\ exportCalls' = <<>>
  /\ UNCHANGED <<occupied, fs>>

\* ------------------------------------------------------------------------
\* Specifications
\* ------------------------------------------------------------------------
\* the state of a fresh process before startAll
Fresh ==
  /\ registry = <<>>
  /\ pc = "idle"
  /\ result = "none"
  /\ hubPort = NoPort
  /\ exportMetadata = defaultExportMetadata
  /\ seed_from_export = <<>>
  /\ functions_emulator_host = FALSE
  /\ probed = {}
  /\ portTaken = {}
  /\ attempted = <<>>
  /\ warnings = <<>>
  /\ stopLog = <<>>
  /\ connected = <<>>
  /\ shutdownResult = "none"
  /\ exportResult = "none"
  /\ exportCalls = <<>>

Root == <<>>
\* no directory holds a metadata file
NoFiles == [f \in {metadataPath(d) : d \in Dirs} |-> <<>>]

\* Lifecycle: every configuration, --only list and project id; the hub's
\* preferred port free, occupied, or in a fully occupied window; no
\* directory holds a metadata file.
Init ==
  /\ options \in [config : SUBSET ServiceKinds,
                  only : SeqsUpTo(OnlyNames, MaxOnly),
                  projectId : BOOLEAN,
                  import : {<<>>, <<Root>>}]
  /\ occupied \in {{}, {HubPort}, Window}
  /\ fs = NoFiles
  /\ Fresh

Next ==
  \/ StartAllBegin
  \/ StartHub
  \/ LoadImport
  \/ StartFunctions
  \/ StartFirestore
  \/ StartDatabase
  \/ StartHosting
  \/ StartPubsub
  \/ Connect
  \/ CleanShutdown

Spec == Init /\ [][Next]_vars

\* Port negotiation: the window occupied up to any port, with any
\* occupancy of the MaxExtra ports after the first free one.
InitHub ==
  /\ options \in [config : {{}, {HOSTING}},
                  only : {<<>>},
                  projectId : {TRUE},
                  import : {<<>>}]
  /\ occupied \in
       UNION {{BusyRun(k) \cup x :
                 x \in SUBSET ((HubPort + k + 1)..(HubPort + k + MaxExtra))} :
              k \in 0..(StopPortOffset + 1)}
  /\ fs = NoFiles
  /\ Fresh

SpecHub == InitHub /\ [][Next]_vars

\* Export and import: runs without --only and with free ports over the
\* export-capable kind, one kind that is not, and the kind with a
\* precondition; exports to every directory, and new processes importing
\* from every directory.
InitExport ==
  /\ options \in [config : SUBSET {FIRESTORE, DATABASE, PUBSUB},
                  only : {<<>>},
                  projectId : BOOLEAN,
                  import : {<<>>}]
  /\ occupied = {}
  /\ fs = NoFiles
  /\ Fresh

NextExport ==
  \/ Next
  \/ ExportAll
  \/ Restart

SpecExport == InitExport /\ [][NextExport]_vars

\* ------------------------------------------------------------------------
\* Properties
\* ------------------------------------------------------------------------
Terminated == pc \in {"done", "failed"}
\* kind k is in the filtered target subset: configured, and named by --only
\* when --only is given
Targeted(k) ==
  /\ k \in options.config
  /\ (options.only = <<>> \/ k \in Range(options.only))
Occurrences(seq, x) == Cardinality({i \in 1..Len(seq) : seq[i] = x})
WarnCount(name) == Occurrences(warnings, notStartingWarning(name))

\* C1 (as claimed): once the port probe of an instance passed to
\* startEmulator has reported the port as not free, startAll has ended in
\* the port-taken failure and the registry holds no running entry.
C1_PortTakenRollsBack ==
  portTaken # {} =>
    /\ pc = "failed"
    /\ result = "portTaken"
    /\ registry = <<>>

\* C2 (as claimed): whenever startAll has ended in a failure, the registry
\* is empty.
C2_FailureLeavesNothingRunning ==
  (pc = "failed") => registry = <<>>

\* C3 (as claimed): for every configuration and --only value
\* shouldStart(options, HUB) is true, and every startAll invocation that
\* has moved past the hub step has passed the hub to startEmulator.
C3_HubAlwaysAttempted ==
  /\ shouldStart(options, HUB)
  /\ pc \notin {"idle", "hub"} => HUB \in Range(attempted)

\* C3 (amended): shouldStart(options, HUB) is true for every configuration
\* and --only value, and every startAll invocation whose hub port
\* negotiation found a free port in the window passes the hub to
\* startEmulator, as the first instance; when the whole window is occupied
\* startAll fails before the hub is constructed.
C3_HubAttemptedWhenPortFound ==
  /\ shouldStart(options, HUB)
  /\ (pc \notin {"idle", "hub"} /\ result # "noPort") =>
        (attempted # <<>> /\ attempted[1] = HUB /\ HUB \in probed)
  /\ result = "noPort" => (attempted = <<>> /\ pc = "failed")

\* C3 witness: --only names other kinds only, nothing is configured, and
\* the hub has been started
C3_Witness ==
  /\ options.only # <<>>
  /\ HUB \notin Range(options.only)
  /\ options.config = {}
  /\ registry = <<HUB>>
  /\ pc = "done"

\* C4: a service kind that is not in the filtered target subset (not
\* configured, or excluded by --only) is never probed, never passed to
\* startEmulator and never registered.
C4_NoAttemptOutsideTargets ==
  \A k \in ServiceKinds :
    ~Targeted(k) =>
      /\ k \notin probed
      /\ k \notin Range(attempted)
      /\ k \notin Range(registry)
      /\ k \notin portTaken

\* C4 witness: a run that ended with services running while a configured
\* kind was excluded by --only
C4_Witness ==
  /\ pc = "done"
  /\ Len(registry) >= 2
  /\ \E k \in options.config : options.only # <<>> /\ k \notin Range(options.only)

C6_MissingProjectFails ==
  (Targeted(PUBSUB) /\ ~options.projectId) =>
    /\ PUBSUB \notin probed
    /\ PUBSUB \notin Range(attempted)
    /\ Terminated => result = "noProject"

\* failures of the steps that precede the PUBSUB step
EarlierFailures ==
  {"noPort", "portTaken", "stopFailed", "startFailed", "noMetadata"}

\* C6 (amended): when PUBSUB is targeted and no project id is resolvable,
\* no run probes the pubsub port or passes a pubsub instance to
\* startEmulator, no run gets past the PUBSUB step, and a run in which no
\* earlier step failed fails with the missing-project failure.
C6_MissingProjectBeforeProbe ==
  (Targeted(PUBSUB) /\ ~options.projectId) =>
    /\ PUBSUB \notin probed
    /\ PUBSUB \notin Range(attempted)
    /\ PUBSUB \notin Range(registry)
    /\ pc \notin {"connect", "done"}
    /\ (pc = "failed" /\ result \notin EarlierFailures) => result = "noProject"

\* C6 witness: the missing-project failure with the services before PUBSUB
\* started
C6_Witness ==
  /\ Targeted(PUBSUB)
  /\ ~options.projectId
  /\ result = "noProject"
  /\ Len(registry) >= 2

\* C7 (as claimed): cleanShutdown never raises a failure to its caller,
\* whatever the individual stops do.
C7_CleanShutdownNeverThrows ==
  shutdownResult # "threw"

\* C8: an exportAll made while no export-capable kind is registered as
\* running ends with "No running emulators support import/export", issues
\* no export request and leaves every metadata file as it was.
C8_ExportNothingRunning ==
  [][(ExportAll /\ \A e \in Range(IMPORT_EXPORT_EMULATORS) : e \notin Range(registry))
       => (/\ exportResult' = "noEmulators"
           /\ exportCalls' = <<>>
           /\ fs' = fs)]_vars

\* C8 witness: the export failed that way with other emulators running
C8_Witness ==
  /\ exportResult = "noEmulators"
  /\ DATABASE \in Range(registry)
  /\ fs = NoFiles

\* C9 (as claimed): when startAll imports from a directory D whose metadata
\* file exportAll wrote, the seed path of the firestore instance it starts
\* lies under D joined with the exported firestore identifier.
C9_SeedUnderExportedPath ==
  (FIRESTORE \in Range(registry) /\ seed_from_export # <<>>) =>
    LET D == options.import[1]
        exported == jsonParse(fs[metadataPath(D)][1]).firestore[1]
    IN IsPrefix(D \o <<exported>>, seed_from_export[1])

\* C10: the hub's port is the preferred port when that is free, the lowest
\* free port above it in the window when it is occupied, none (startAll
\* fails) when the whole window is occupied; the warning is logged exactly
\* when a port other than the preferred one was chosen.
C10_HubPortNegotiation ==
  pc # "idle" =>
    LET free == Window \ occupied IN
    /\ HubPort \notin occupied => hubPort = HubPort
    /\ (HubPort \in occupied /\ free # {}) =>
         (hubPort \in free /\ hubPort > HubPort
          /\ \A q \in free : q >= hubPort)
    /\ free = {} => (hubPort = NoPort /\ result = "noPort" /\ pc = "failed")
    /\ free # {} => result # "noPort"
    /\ Occurrences(warnings, hubPortWarning) =
         IF hubPort # NoPort /\ hubPort # HubPort THEN 1 ELSE 0

\* C10 witness: only the last port of the window was free and the hub got
\* it, with the warning
C10_Witness ==
  /\ hubPort = HubPort + StopPortOffset
  /\ occupied \cap Window = Window \ {hubPort}
  /\ hubPortWarning \in Range(warnings)
  /\ HUB \in Range(registry)

\* C11: whenever exportAll writes a metadata document, the document has
\* the firestore key if and only if FIRESTORE is registered as running
\* (and is export-capable) during that call, and then an export request
\* naming that identifier and that directory was issued to it; a document
\* is written only by an exportAll that had a running export-capable kind.
C11_MetadataNamesRunningServices ==
  [][/\ \A d \in Dirs :
          fs'[metadataPath(d)] # fs[metadataPath(d)] =>
            LET m == jsonParse(fs'[metadataPath(d)][1]) IN
            /\ m.firestore # <<>> <=> FIRESTORE \in Range(registry)
            /\ m.firestore # <<>> =>
                 /\ FIRESTORE \in Range(IMPORT_EXPORT_EMULATORS)
                 /\ exportCalls' = <<[kind |-> FIRESTORE, export_directory |-> d,
                                      export_name |-> m.firestore[1]]>>
     /\ (ExportAll /\ exportResult' = "ok") =>
          (FIRESTORE \in Range(registry) /\ exportCalls' # <<>>)]_vars

\* C11 witness: a metadata document with the firestore key, written while
\* FIRESTORE was running beside a kind that cannot export
C11_Witness ==
  /\ exportResult = "ok"
  /\ fs[metadataPath(<<"a">>)] = <<<<<<"version", CLI_VERSION>>,
                                    <<"firestore", "firestore_export">>>>>>
  /\ registry = <<HUB, FIRESTORE, DATABASE>>

\* the selected kinds of the run, in the order startAll takes them
PrecedenceOrder == <<FUNCTIONS, FIRESTORE, DATABASE, HOSTING, PUBSUB>>
TargetsInOrder == SelectSeq(PrecedenceOrder, Targeted)
Selected == <<HUB>> \o TargetsInOrder
\* how startAll ends when a step before the connect loop fails
StartFailures ==
  {"noPort", "portTaken", "stopFailed", "startFailed", "noMetadata", "noProject"}

\* C12 (as claimed): connect() is invoked only after every selected service
\* has started; then it has been invoked exactly once on every registry
\* entry, in registration order; after a failed start step it is invoked on
\* no instance.
C12_ConnectEveryEntry ==
  /\ connected # <<>> => (attempted = Selected /\ portTaken = {})
  /\ (connected # <<>> /\ shutdownResult = "none") => connected = registry
  /\ result \in StartFailures => connected = <<>>

\* C12 (amended): connect() is invoked only after every selected service
\* has started; the invocations follow registration order, at most one per
\* entry, and reach every entry when startAll succeeds; a connect() that
\* rejects ends startAll, leaving the later entries unconnected; after a
\* failed start step it is invoked on no instance.
C12_ConnectInRegistrationOrder ==
  /\ connected # <<>> =>
       (attempted = Selected /\ portTaken = {}
        /\ result \in {"ok", "connectFailed"})
  /\ (connected # <<>> /\ shutdownResult = "none") => IsPrefix(connected, registry)
  /\ (result = "ok" /\ shutdownResult = "none") => connected = registry
  /\ result = "connectFailed" => connected # <<>>
  /\ result \in StartFailures => connected = <<>>

\* C12 witness: a successful run that connected the hub and two services
C12_Witness ==
  /\ result = "ok"
  /\ shutdownResult = "none"
  /\ Len(connected) = 3
  /\ connected = registry

\* C13: the start attempts of a run are HUB and then the selected kinds in
\* the order FUNCTIONS, FIRESTORE, DATABASE, HOSTING, PUBSUB, each at most
\* once and none before an earlier one; when startAll has succeeded,
\* listRunning() is HUB followed by the target subset in that order.
C13_StartOrder ==
  /\ IsPrefix(attempted, Selected)
  /\ \A k \in Kinds : Occurrences(attempted, k) <= 1
  /\ (shutdownResult = "none" /\ result # "stopFailed") =>
       IsPrefix(listRunning(registry), attempted)
  /\ (result = "ok" /\ shutdownResult = "none") =>
       (listRunning(registry) = Selected /\ attempted = Selected)

\* C13 witness: targets {FIRESTORE, HOSTING} are running, FIRESTORE before
\* HOSTING, after the hub
C13_Witness ==
  /\ result = "ok"
  /\ options.config = {FIRESTORE, HOSTING}
  /\ listRunning(registry) = <<HUB, FIRESTORE, HOSTING>>

\* C14: every step of startAll makes at most one start attempt, and once a
\* start step has failed (port conflict, precondition failure, or the
\* instance's own start) no later step probes a port, passes an instance
\* to startEmulator or registers one; the probed kinds are the attempted
\* ones.
C14_NothingStartsAfterFailure ==
  /\ [](probed = Range(attempted))
  /\ [][/\ Len(attempted') <= Len(attempted) + 1
        /\ Len(registry') <= Len(registry) + 1
        /\ result \notin {"none", "ok"} =>
             /\ probed' = probed
             /\ attempted' = attempted
             /\ Range(registry') \subseteq Range(registry)
             /\ result' = result]_vars

\* C14 witness: the second of at least three selected services failed in
\* its own start, and the run ended with the later ones never probed
C14_Witness ==
  /\ result = "startFailed"
  /\ Len(attempted) = 3
  /\ Len(Selected) >= 5
  /\ registry = <<>>
  /\ shutdownResult = "ok"

\* a step in which cleanShutdown ran: the caller's, or the one startEmulator
\* makes when the port is taken
ShutdownStep == CleanShutdown \/ portTaken' # portTaken

\* C15 (as claimed): whichever stops fail, cleanShutdown makes a stop
\* attempt for every kind that was registered when it began.
C15_EveryInstanceStopAttempted ==
  [][ShutdownStep => Range(stopLog') = Range(registry)]_vars

\* C16: a cleanShutdown that returns leaves the registry empty, having
\* stopped every kind that was running when it began, each once; with
\* nothing running it invokes no stop, returns and changes nothing.
C16_ShutdownEmptiesRegistry ==
  [][ShutdownStep =>
       /\ shutdownResult' = "ok" =>
            /\ listRunning(registry') = <<>>
            /\ stopLog' = listRunning(registry)
       /\ registry = <<>> =>
            /\ stopLog' = <<>>
            /\ registry' = registry
            /\ shutdownResult' = "ok"]_vars

\* C16 witness: a shutdown returned after stopping three running instances
C16_Witness ==
  /\ shutdownResult = "ok"
  /\ Len(stopLog) = 3
  /\ registry = <<>>
  /\ result = "ok"

\* C19: the stops of one cleanShutdown are invoked in registration order,
\* one after the other: the kinds stopped are an initial part of the
\* registry as it was when the shutdown began, and a kind's stop is invoked
\* only after the stops of all kinds registered before it have returned.
C19_StopsInRegistrationOrder ==
  [][ShutdownStep =>
       /\ IsPrefix(stopLog', listRunning(registry))
       /\ \A i \in 1..Len(stopLog') :
            \A j \in 1..(i - 1) : stopLog'[j] \notin Range(registry')]_vars

\* C19 witness: hub, functions and database were stopped in that order
C19_Witness ==
  /\ stopLog = <<HUB, FUNCTIONS, DATABASE>>
  /\ shutdownResult = "ok"
  /\ pc = "done"

\* C17: the database instance is configured with the functions emulator
\* address exactly when FUNCTIONS is in the target subset; and at the moment
\* a database instance carrying that address is passed to startEmulator,
\* the functions instance has been started and is registered as running.
C17_DatabaseKnowsFunctions ==
  /\ [](DATABASE \notin Range(attempted) => ~functions_emulator_host)
  /\ [](DATABASE \in Range(attempted) =>
          (functions_emulator_host <=> Targeted(FUNCTIONS)))
  /\ [][(DATABASE \notin Range(attempted) /\ DATABASE \in Range(attempted')
           /\ functions_emulator_host') =>
          /\ FUNCTIONS \in Range(attempted)
          /\ isRunning(registry, FUNCTIONS)
          /\ ~isRunning(registry, DATABASE)]_vars

\* C17 witness: database was started with the address after functions
C17_Witness ==
  /\ functions_emulator_host
  /\ registry = <<HUB, FUNCTIONS, DATABASE>>
  /\ attempted = <<HUB, FUNCTIONS, DATABASE>>

\* the metadata file under the supplied import path does not exist
MissingMetadata ==
  /\ options.import # <<>>
  /\ fs[metadataPath(pathResolve(options.import[1]))] = <<>>

\* C18: with an import path whose metadata file is missing, startAll never
\* succeeds and never gets past the metadata load: only the hub is ever
\* probed, attempted or registered, and the failure of a run whose hub
\* started is the missing-metadata one, raised after the hub start.
C18_MissingMetadataIsFatal ==
  MissingMetadata =>
    /\ pc \in {"idle", "hub", "import", "failed"}
    /\ result # "ok"
    /\ probed \subseteq {HUB}
    /\ Range(attempted) \subseteq {HUB}
    /\ Range(registry) \subseteq {HUB}
    /\ pc = "failed" => result # "none"
    /\ (pc = "failed" /\ portTaken = {} /\ result \notin {"noPort", "startFailed"})
         => result = "noMetadata"
    /\ result = "noMetadata" => (attempted = <<HUB>> /\ portTaken = {})

\* C18 witness: the run failed on the metadata with three services selected
C18_Witness ==
  /\ result = "noMetadata"
  /\ pc = "failed"
  /\ registry = <<HUB>>
  /\ Len(Selected) = 4

\* C20: an exportAll whose export request fails fails itself and writes no
\* metadata file; a metadata file changes only in an exportAll that
\* succeeds, and when the file written names the firestore export, the
\* request for that export into that directory was made and succeeded.
C20_MetadataAfterExports ==
  [][/\ (ExportAll /\ exportResult' = "requestFailed") =>
          /\ fs' = fs
          /\ isRunning(registry, FIRESTORE)
          /\ Len(exportCalls') = 1
     /\ \A d \in Dirs :
          fs'[metadataPath(d)] # fs[metadataPath(d)] =>
            /\ exportResult' = "ok"
            /\ jsonParse(fs'[metadataPath(d)][1]).firestore # <<>> =>
                 firestoreExportBody(d) \in Range(exportCalls')]_vars

\* C20 witness: the export request failed and no metadata file exists
C20_Witness ==
  /\ exportResult = "requestFailed"
  /\ exportCalls = <<firestoreExportBody(<<"a">>)>>
  /\ isRunning(registry, FIRESTORE)
  /\ fs = NoFiles

====
